---- MODULE Spec2Model ----
(***************************************************************************)
(* Model of src/src/Path.ts: a POSIX-style path library for a browser host. *)
(*                                                                         *)
(* A string is a sequence of one-character strings, so that splitting,     *)
(* joining, prefix and suffix tests are computed character by character as *)
(* the code computes them.  The host environment (window.location.origin   *)
(* and document.location.pathname) is state that the library only reads.   *)
(* Every exported function is an operator translated from its source, and  *)
(* one action per exported function applies it to inputs drawn from        *)
(* bounded sets and records the call and its result.                       *)
(***************************************************************************)
EXTENDS Integers, Sequences, FiniteSets

VARIABLES origin, pathname, op, args, ext, obj, result, parsed

vars == <<origin, pathname, op, args, ext, obj, result, parsed>>

(***************************************************************************)
(* Bounds of the input sets.                                               *)
(***************************************************************************)
MaxLen == 5
MaxAffix == 2
MaxClimbLen == 6
MaxArgs == 3
MaxBaseLen == 3
MaxExtLen == 2
MaxDirLen == 3

(***************************************************************************)
(* Characters and strings.                                                 *)
(***************************************************************************)
Chars == {"/", "\\", ".", "a"}

Slash == <<"/">>
Dot == <<".">>
DotDot == <<".", ".">>

\* An absent (undefined) optional value; it equals no string over Chars.
Undefined == <<"undefined">>

RECURSIVE StrsOfLen(_, _)
StrsOfLen(A, n) ==
  IF n = 0 THEN {<<>>}
  ELSE {Append(s, c) : s \in StrsOfLen(A, n - 1), c \in A}

\* the strings over the alphabet A of length at most n
StrsOver(A, n) == UNION {StrsOfLen(A, k) : k \in 0..n}

Strs(n) == StrsOver(Chars, n)

RECURSIVE ListsOfLen(_, _)
ListsOfLen(S, n) ==
  IF n = 0 THEN {<<>>}
  ELSE {Append(l, s) : l \in ListsOfLen(S, n - 1), s \in S}

Lists(S, n) == UNION {ListsOfLen(S, k) : k \in 0..n}

\* String.prototype.startsWith
StartsWith(s, prefix) ==
  /\ Len(prefix) <= Len(s)
  /\ SubSeq(s, 1, Len(prefix)) = prefix

\* String.prototype.endsWith
EndsWith(s, suffix) ==
  /\ Len(suffix) <= Len(s)
  /\ SubSeq(s, Len(s) - Len(suffix) + 1, Len(s)) = suffix

\* Array.prototype.join
RECURSIVE ArrayJoin(_, _)
ArrayJoin(arr, sep) ==
  IF Len(arr) = 0 THEN <<>>
  ELSE IF Len(arr) = 1 THEN arr[1]
  ELSE arr[1] \o sep \o ArrayJoin(Tail(arr), sep)

\* String.prototype.lastIndexOf for a single character, 0-based, -1 if absent
RECURSIVE LastIndexOf(_, _, _)
LastIndexOf(s, c, i) ==
  IF i = 0 THEN -1
  ELSE IF s[i] = c THEN i - 1
  ELSE LastIndexOf(s, c, i - 1)

\* Array.prototype.pop() ?? ""
PopOrEmpty(arr) == IF Len(arr) = 0 THEN <<>> ELSE arr[Len(arr)]

(***************************************************************************)
(* The host environment.                                                   *)
(***************************************************************************)
\* window.location.origin: a scheme://host origin, or the opaque origin "null"
Origins ==
  { <<"h", "t", "t", "p", ":", "/", "/", "x">>,
    <<"n", "u", "l", "l">> }

\* document.location.pathname: "/", "/a/a", "/a/", and a pathname with no
\* leading slash (as "blank" of about:blank)
Pathnames ==
  { <<"/">>, <<"/", "a", "/", "a">>, <<"/", "a", "/">>, <<"a">> }

(***************************************************************************)
(* The library functions.                                                  *)
(***************************************************************************)
RECURSIVE pathSplitLoop(_, _, _, _, _)
pathSplitLoop(path, i, arr, current, keepEmpty) ==
  IF i > Len(path)
  THEN IF Len(current) # 0 THEN Append(arr, current) ELSE arr
  ELSE IF path[i] = "/" \/ path[i] = "\\"
       THEN IF current # <<>> \/ keepEmpty
            THEN pathSplitLoop(path, i + 1, Append(arr, current), <<>>, keepEmpty)
            ELSE pathSplitLoop(path, i + 1, arr, current, keepEmpty)
       ELSE pathSplitLoop(path, i + 1, arr, Append(current, path[i]), keepEmpty)

pathSplit(path, keepEmpty) == pathSplitLoop(path, 1, <<>>, <<>>, keepEmpty)

isAbsolute(path) ==
  \/ (Len(path) > 0 /\ path[1] = "/")
  \/ StartsWith(path, origin)

\* the for/switch loop of normalize
RECURSIVE normalizeFold(_, _, _)
normalizeFold(arr, i, pathArr) ==
  IF i > Len(arr) THEN pathArr
  ELSE
    LET item == arr[i] IN
    IF item = Dot THEN normalizeFold(arr, i + 1, pathArr)
    ELSE IF item = DotDot
    THEN IF Len(pathArr) # 0
         THEN IF pathArr[Len(pathArr)] = DotDot
              THEN normalizeFold(arr, i + 1, Append(pathArr, DotDot))
              ELSE IF pathArr[Len(pathArr)] = Dot
              THEN normalizeFold(arr, i + 1,
                                 [pathArr EXCEPT ![Len(pathArr)] = DotDot])
              ELSE normalizeFold(arr, i + 1, SubSeq(pathArr, 1, Len(pathArr) - 1))
         ELSE normalizeFold(arr, i + 1, Append(pathArr, DotDot))
    ELSE normalizeFold(arr, i + 1, Append(pathArr, item))

\* variant of normalizeStrip that omits the while loop
normalizeStripKeep(pathArr) == pathArr

\* the while loop of normalize: shift leading ".." and "." segments
RECURSIVE normalizeStrip(_)
normalizeStrip(pathArr) ==
  IF \/ (Len(pathArr) # 0 /\ pathArr[1] = DotDot)
     \/ (Len(pathArr) # 0 /\ pathArr[1] = Dot)
  THEN normalizeStrip(Tail(pathArr))
  ELSE pathArr

normalize(path) ==
  LET explicitDirectory == EndsWith(path, Slash)
      absoluteDirectory == isAbsolute(path)
      arr == pathSplit(path, FALSE)
      folded == normalizeFold(arr, 1, <<>>)
      pathArr == IF absoluteDirectory THEN normalizeStrip(folded) ELSE folded
  IN
    IF Len(pathArr) = 0 /\ absoluteDirectory THEN Slash
    ELSE
      LET joined == ArrayJoin(pathArr, Slash)
          pathStr1 == IF joined = <<>> THEN Dot ELSE joined
          pathStr2 == IF explicitDirectory THEN pathStr1 \o Slash ELSE pathStr1
      IN IF absoluteDirectory /\ pathStr2[1] # "/"
         THEN Slash \o pathStr2
         ELSE pathStr2

join(paths) ==
  IF Len(paths) = 0 THEN Dot
  ELSE IF Len(paths) = 1 THEN normalize(paths[1])
  ELSE normalize(ArrayJoin(paths, Slash))

\* the backward scan of resolve: index of the rightmost absolute argument, or 0
RECURSIVE resolveScan(_, _)
resolveScan(pathSegments, i) ==
  IF i < 1 THEN 0
  ELSE IF isAbsolute(pathSegments[i]) THEN i
  ELSE resolveScan(pathSegments, i - 1)

\* variant of resolveStrip that omits the while loop
resolveStripKeep(pathArr) == pathArr

\* the while loop of resolve: shift leading ".." and "." segments
RECURSIVE resolveStrip(_)
resolveStrip(pathArr) ==
  IF \/ (Len(pathArr) # 0 /\ pathArr[1] = DotDot)
     \/ (Len(pathArr) # 0 /\ pathArr[1] = Dot)
  THEN resolveStrip(Tail(pathArr))
  ELSE pathArr

resolve(pathSegments) ==
  LET i == resolveScan(pathSegments, Len(pathSegments))
      absolute == i # 0
      kept == IF absolute
              THEN SubSeq(pathSegments, i, Len(pathSegments))
              ELSE pathSegments
      pathArr == pathSplit(IF absolute
                           THEN join(kept)
                           ELSE join(<<pathname, join(kept)>>),
                           FALSE)
  IN Slash \o ArrayJoin(resolveStrip(pathArr), Slash)

relative(from, to) == join(<<from, to>>)

\* the while loop of dirname: pop trailing empty segments
RECURSIVE dirnamePopEmpty(_)
dirnamePopEmpty(arr) ==
  IF Len(arr) # 0 /\ arr[Len(arr)] = <<>>
  THEN dirnamePopEmpty(SubSeq(arr, 1, Len(arr) - 1))
  ELSE arr

dirname(path) ==
  LET arr1 == dirnamePopEmpty(pathSplit(path, TRUE))
      arr == IF Len(arr1) # 0 THEN SubSeq(arr1, 1, Len(arr1) - 1) ELSE arr1
      pathStr == ArrayJoin(arr, Slash)
  IN IF isAbsolute(path)
     THEN IF Len(pathStr) > 0 /\ pathStr[1] = "/"
          THEN pathStr
          ELSE Slash \o pathStr
     ELSE IF pathStr = <<>> THEN Dot ELSE pathStr

\* variant of basename whose fullSlash branch omits the test ext == path
basenameNoEq(path, e) ==
  LET fullSlash == \A i \in 1..Len(path) : path[i] = "/"
      fileName == PopOrEmpty(pathSplit(path, FALSE))
  IN IF fullSlash
     THEN IF e = Undefined \/ e = <<>> THEN <<>> ELSE path
     ELSE IF /\ e # Undefined /\ e # <<>>
             /\ EndsWith(fileName, e)
             /\ Len(fileName) > Len(e)
          THEN SubSeq(fileName, 1, Len(fileName) - Len(e))
          ELSE fileName

\* e is the optional ext parameter (Undefined when the argument is omitted)
basename(path, e) ==
  LET fullSlash == \A i \in 1..Len(path) : path[i] = "/"
      fileName == PopOrEmpty(pathSplit(path, FALSE))
  IN IF fullSlash
     THEN IF (e = Undefined \/ e = <<>>) \/ e = path THEN <<>> ELSE path
     ELSE IF /\ e # Undefined /\ e # <<>>
             /\ EndsWith(fileName, e)
             /\ Len(fileName) > Len(e)
          THEN SubSeq(fileName, 1, Len(fileName) - Len(e))
          ELSE fileName

\* variant of extname that omits the test index === 0
extnameDotfile(path) ==
  LET fileName == PopOrEmpty(pathSplit(path, FALSE))
      index == LastIndexOf(fileName, ".", Len(fileName))
  IN IF index = -1 \/ index = Len(fileName) - 1
     THEN <<>>
     ELSE SubSeq(fileName, index + 1, Len(fileName))

extname(path) ==
  LET fileName == PopOrEmpty(pathSplit(path, FALSE))
      index == LastIndexOf(fileName, ".", Len(fileName))
  IN IF index = -1 \/ index = 0 \/ index = Len(fileName) - 1
     THEN <<>>
     ELSE SubSeq(fileName, index + 1, Len(fileName))

parse(path) ==
  [ root |-> IF StartsWith(path, Slash) THEN Slash ELSE <<>>,
    dir |-> dirname(path),
    base |-> basename(path, Undefined),
    ext |-> extname(path),
    name |-> basename(path, extname(path)) ]

\* x ?? y
Nullish(x, y) == IF x = Undefined THEN y ELSE x

\* the anchoring prefixes of format, in the order the loop tries them
FormatPrefixes == << <<".", "/">>, <<".", ".", "/">>, <<"/">>, <<".">> >>

\* variant of formatLoop that omits the test !joined.startsWith(prefix)
RECURSIVE formatLoopAlways(_, _, _)
formatLoopAlways(dir, joined, k) ==
  IF k > Len(FormatPrefixes) THEN joined
  ELSE IF StartsWith(dir, FormatPrefixes[k])
       THEN FormatPrefixes[k] \o joined
       ELSE formatLoopAlways(dir, joined, k + 1)

\* the for loop of format over the prefixes, from prefix k on
RECURSIVE formatLoop(_, _, _)
formatLoop(dir, joined, k) ==
  IF k > Len(FormatPrefixes) THEN joined
  ELSE IF StartsWith(dir, FormatPrefixes[k]) /\ ~StartsWith(joined, FormatPrefixes[k])
       THEN FormatPrefixes[k] \o joined
       ELSE formatLoop(dir, joined, k + 1)

\* path is a record of the five optional fields, Undefined when absent
format(path) ==
  LET dir == Nullish(path.dir, path.root)
      base == Nullish(path.base, Nullish(path.name, <<>>) \o Nullish(path.ext, <<>>))
  IN IF dir # Undefined /\ dir # <<>>
     THEN formatLoop(dir,
                     IF EndsWith(dir, Slash) THEN dir \o base ELSE dir \o Slash \o base,
                     1)
     ELSE base

(***************************************************************************)
(* Inputs.                                                                 *)
(***************************************************************************)
\* path strings: every string up to MaxLen, the strings that mention the
\* origin, and the origin followed by a run of '/' and '.' characters
PathInputs ==
  Strs(MaxLen) \cup
  {pre \o origin \o suf : pre \in Strs(MaxAffix), suf \in Strs(MaxAffix)} \cup
  {origin \o suf : suf \in StrsOver({"/", "."}, MaxClimbLen)}

\* arguments of the variadic functions: "", "/", "\", ".", "..", "a", "/a",
\* "a/", "../a", the origin, and the origin followed by "/a"
ArgInputs ==
  { <<>>, Slash, <<"\\">>, Dot, DotDot, <<"a">>, <<"/", "a">>, <<"a", "/">>,
    <<".", ".", "/", "a">>, origin, origin \o <<"/", "a">> }

\* inputs of basename
BaseInputs == Strs(MaxBaseLen)
ExtInputs == Strs(MaxExtLen) \cup {Undefined}

\* inputs of format
FormatInputs ==
  [ root : {Undefined, <<>>, Slash, Dot},
    dir : Strs(MaxDirLen) \cup {Undefined},
    base : {Undefined, <<>>, <<"a">>, <<"\\", "a">>},
    ext : {Undefined, <<".", "a">>},
    name : {Undefined, <<"a">>} ]

NoObject ==
  [root |-> Undefined, dir |-> Undefined, base |-> Undefined,
   ext |-> Undefined, name |-> Undefined]

NoParsed ==
  [root |-> <<>>, dir |-> <<>>, base |-> <<>>, ext |-> <<>>, name |-> <<>>]

(***************************************************************************)
(* The state machine: the host environment is fixed, then one call.        *)
(***************************************************************************)
Init ==
  /\ origin \in Origins
  /\ pathname \in Pathnames
  /\ op = "none"
  /\ args = <<>>
  /\ ext = Undefined
  /\ obj = NoObject
  /\ result = <<>>
  /\ parsed = NoParsed

Normalize ==
  /\ op = "none"
  /\ \E p \in PathInputs :
       /\ op' = "normalize"
       /\ args' = <<p>>
       /\ result' = normalize(p)
  /\ UNCHANGED <<origin, pathname, ext, obj, parsed>>

Join ==
  /\ op = "none"
  /\ \E ps \in Lists(ArgInputs, MaxArgs) :
       /\ op' = "join"
       /\ args' = ps
       /\ result' = join(ps)
  /\ UNCHANGED <<origin, pathname, ext, obj, parsed>>

Resolve ==
  /\ op = "none"
  /\ \E ps \in Lists(ArgInputs, MaxArgs) :
       /\ op' = "resolve"
       /\ args' = ps
       /\ result' = resolve(ps)
  /\ UNCHANGED <<origin, pathname, ext, obj, parsed>>

Relative ==
  /\ op = "none"
  /\ \E from \in ArgInputs, to \in ArgInputs :
       /\ op' = "relative"
       /\ args' = <<from, to>>
       /\ result' = relative(from, to)
  /\ UNCHANGED <<origin, pathname, ext, obj, parsed>>

Dirname ==
  /\ op = "none"
  /\ \E p \in PathInputs :
       /\ op' = "dirname"
       /\ args' = <<p>>
       /\ result' = dirname(p)
  /\ UNCHANGED <<origin, pathname, ext, obj, parsed>>

Basename ==
  /\ op = "none"
  /\ \E p \in BaseInputs :
       \E e \in ExtInputs \cup {p} :
         /\ op' = "basename"
         /\ args' = <<p>>
         /\ ext' = e
         /\ result' = basename(p, e)
  /\ UNCHANGED <<origin, pathname, obj, parsed>>

Extname ==
  /\ op = "none"
  /\ \E p \in PathInputs :
       /\ op' = "extname"
       /\ args' = <<p>>
       /\ result' = extname(p)
  /\ UNCHANGED <<origin, pathname, ext, obj, parsed>>

Parse ==
  /\ op = "none"
  /\ \E p \in PathInputs :
       /\ op' = "parse"
       /\ args' = <<p>>
       /\ parsed' = parse(p)
  /\ UNCHANGED <<origin, pathname, ext, obj, result>>

Format ==
  /\ op = "none"
  /\ \E o \in FormatInputs :
       /\ op' = "format"
       /\ obj' = o
       /\ result' = format(o)
  /\ UNCHANGED <<origin, pathname, args, ext, parsed>>

Next ==
  \/ Normalize
  \/ Join
  \/ Resolve
  \/ Relative
  \/ Dirname
  \/ Basename
  \/ Extname
  \/ Parse
  \/ Format

Spec == Init /\ [][Next]_vars

\* the calls of one function only
SpecNormalize == Init /\ [][Normalize]_vars
SpecResolve == Init /\ [][Resolve]_vars
SpecBasename == Init /\ [][Basename]_vars
SpecParse == Init /\ [][Parse]_vars
SpecFormat == Init /\ [][Format]_vars

(***************************************************************************)
(* Helpers of the properties.                                              *)
(***************************************************************************)
IsSeparator(c) == c = "/" \/ c = "\\"

HasBackslash(s) == \E i \in 1..Len(s) : s[i] = "\\"

\* the first segment of a path string, <<>> when it has no segment
FirstSegment(s) ==
  LET segs == pathSplit(s, FALSE)
  IN IF Len(segs) = 0 THEN <<>> ELSE segs[1]

StartsWithSlash(s) == Len(s) > 0 /\ s[1] = "/"

AllSlashes(s) == \A i \in 1..Len(s) : s[i] = "/"

AllSeparators(s) == \A i \in 1..Len(s) : IsSeparator(s[i])

\* no two consecutive separators and no trailing slash
NoRedundantSeparators(s) ==
  /\ \A i \in 1..(Len(s) - 1) : ~(IsSeparator(s[i]) /\ IsSeparator(s[i + 1]))
  /\ ~EndsWith(s, Slash)

RECURSIVE DropLeadingDots(_)
DropLeadingDots(segs) ==
  IF Len(segs) > 0 /\ segs[1] \in {Dot, DotDot}
  THEN DropLeadingDots(Tail(segs))
  ELSE segs

NoneAbsolute(ps) == \A k \in 1..Len(ps) : ~isAbsolute(ps[k])

\* format's effective dir and base for the recorded input object
EffectiveDir == Nullish(obj.dir, obj.root)
EffectiveBase ==
  Nullish(obj.base, Nullish(obj.name, <<>>) \o Nullish(obj.ext, <<>>))

(***************************************************************************)
(* The properties.                                                         *)
(***************************************************************************)
\* C1: normalize is idempotent: normalizing the result of normalize(p) again
\* returns the same string, for every path string p and every origin.
C1_NormalizeIdempotent ==
  op = "normalize" => normalize(result) = result

\* C2: parse/format round trip: for every path string p with no two
\* consecutive separators and no trailing slash, format(parse(p)) = p.
C2_ParseFormatRoundTrip ==
  (op = "parse" /\ NoRedundantSeparators(args[1])) => format(parsed) = args[1]

\* C3: every path string produced by normalize, join, resolve, relative,
\* dirname, basename or format contains no backslash.
C3_OnlySlashSeparator ==
  op \in {"normalize", "join", "resolve", "relative", "dirname", "basename",
          "format"}
    => ~HasBackslash(result)

\* C4: resolve always returns a string that starts with '/' and whose first
\* segment is neither '.' nor '..', for every argument list and environment.
C4_ResolveAbsolute ==
  op = "resolve" =>
    /\ StartsWithSlash(result)
    /\ FirstSegment(result) \notin {Dot, DotDot}

\* C4 witness: resolve was called with no absolute argument and the joined
\* path climbs above the current location, so the leading '..' had to go.
C4_Witness ==
  /\ op = "resolve"
  /\ NoneAbsolute(args)
  /\ FirstSegment(join(<<pathname, join(args)>>)) = DotDot
  /\ result = Slash

\* C5: for every absolute p (leading '/' or prefixed by the origin),
\* normalize(p) starts with '/' and its first segment is not '..'.
C5_AbsoluteNoClimb ==
  (op = "normalize" /\ isAbsolute(args[1])) =>
    /\ StartsWithSlash(result)
    /\ FirstSegment(result) # DotDot

\* C5 witness: normalize was called on a path that is absolute only by its
\* origin prefix and whose folded segments begin with '..'.
C5_Witness ==
  /\ op = "normalize"
  /\ isAbsolute(args[1])
  /\ ~StartsWithSlash(args[1])
  /\ FirstSegment(ArrayJoin(normalizeFold(pathSplit(args[1], FALSE), 1, <<>>),
                            Slash)) = DotDot

\* C6 (as stated): for a non-empty path p of '/' characters only,
\* basename(p, p) returns p itself.
C6_BasenameSelfExtIsPath ==
  (op = "basename" /\ args[1] # <<>> /\ AllSlashes(args[1]) /\ ext = args[1])
    => result = args[1]

\* C6 (amended): for a non-empty path p of '/' characters only,
\* basename(p, p) returns the empty string.
C6_BasenameSelfExtIsEmpty ==
  (op = "basename" /\ args[1] # <<>> /\ AllSlashes(args[1]) /\ ext = args[1])
    => result = <<>>

\* C6 witness: basename("///", "///") was called.
C6_Witness ==
  /\ op = "basename"
  /\ args[1] = <<"/", "/", "/">>
  /\ ext = args[1]

\* C7: for every p that is empty or all separators ('/' or '\'),
\* basename(p, ext) is "" when ext is omitted or equals p, and is p when an
\* ext (any string, the empty string included) that differs from p is given.
C7_BasenameAllSeparators ==
  (op = "basename" /\ AllSeparators(args[1])) =>
    result = IF ext = Undefined \/ ext = args[1] THEN <<>> ELSE args[1]

\* C8: resolve discards everything left of an absolute argument:
\* resolve(xs, a, ys) = resolve(a, ys); and with no absolute argument the
\* result is '/' followed by the segments of join(pathname, ys...) with
\* leading '.' and '..' segments removed.
C8_ResolveRightmostAbsolute ==
  op = "resolve" =>
    /\ \A k \in 1..Len(args) :
         isAbsolute(args[k]) => result = resolve(SubSeq(args, k, Len(args)))
    /\ NoneAbsolute(args) =>
         result = Slash \o ArrayJoin(
                    DropLeadingDots(pathSplit(join(<<pathname>> \o args), FALSE)),
                    Slash)

\* C9: the record returned by parse(p) satisfies name + ext = base.
C9_NameExtIsBase ==
  op = "parse" => parsed.name \o parsed.ext = parsed.base

\* C9 witness: parse was called on a path with an extension, which basename
\* stripped from the name.
C9_Witness ==
  /\ op = "parse"
  /\ parsed.ext # <<>>
  /\ parsed.name # parsed.base

\* C10: for every input whose effective dir is non-empty, format returns
\* dir + base when dir ends with '/', and dir + '/' + base otherwise; no
\* anchoring prefix is ever prepended.
C10_FormatNoPrefix ==
  (op = "format" /\ EffectiveDir # Undefined /\ EffectiveDir # <<>>) =>
    result = IF EndsWith(EffectiveDir, Slash)
             THEN EffectiveDir \o EffectiveBase
             ELSE EffectiveDir \o Slash \o EffectiveBase

\* C10 witness: format was called with a dir that starts with the anchoring
\* prefix "../" and a non-empty base.
C10_Witness ==
  /\ op = "format"
  /\ obj.dir = <<".", ".", "/">>
  /\ obj.base = <<"a">>
  /\ result = <<".", ".", "/", "a">>

====
